---- MODULE Spec2Model ----
(***************************************************************************)
(* Model of the MCP sandbox of asana-cli: the execution host               *)
(* (src/mcp/sandbox.ts), the worker bridge and rate limiter                *)
(* (src/mcp/bridge.ts), the session store (src/mcp/session.ts) and the     *)
(* stdio server's request loop (src/mcp/server.ts); and of parts of the    *)
(* SDK: parallel() (src/sdk/parallel.ts), runBatch() (src/sdk/batch.ts),   *)
(* the client's workspace cache (src/sdk/client.ts), paginate()            *)
(* (src/sdk/http.ts) and addDependency() (src/sdk/dependencies.ts).        *)
(*                                                                         *)
(* JavaScript values are modelled as strings: "undefined" and "null" are   *)
(* the two JavaScript values of those names, "10n" is a BigInt: a value    *)
(* that passes the structured clone of postMessage and on which            *)
(* JSON.stringify throws (as it does on an object that contains itself).   *)
(***************************************************************************)
EXTENDS Integers, Sequences, FiniteSets, TLC

\* ---------------------------------------------------------------- bounds
MaxInvocations == 2      \* executeInSandbox calls on one connection
MaxCalls       == 2      \* asana.* calls a script issues in one invocation
MaxScriptOps   == 2      \* calls, progress() calls and context writes of one script
MaxErrorEvents == 2      \* worker "error" events of one invocation
MaxNow         == 3      \* last instant of the clock (Date.now()) in SpecBridge
MaxAcquirers   == 3      \* acquire() calls in SpecRL
MaxNowRL       == 6      \* last instant of the clock in SpecRL
MaxFactories   == 3      \* factories passed to one parallel() call
MaxConcurrency == 2      \* largest opts.concurrency a caller passes
MaxSteps       == 3      \* steps of one runBatch() plan
MaxRequests == 2         \* lines that arrive on the server's stdin
MaxClientCalls == 3      \* getWorkspace()/getWorkspaceGid() calls on one client
MaxPages == 3            \* pages the server holds for one paginate()
MaxPageItems == 2        \* items of one page
MaxItemsArg == 3         \* largest maxItems passed to paginate()
MAX_VISITS == 2          \* the search's cap on visited tasks (150), scaled down
\* The limiter's constants, scaled down: the source has RATE_LIMIT_RPM = 150
\* admissions per RATE_WINDOW_MS = 60000 ms and a sleep margin of 10 ms.
RATE_LIMIT_RPM  == 1
RATE_WINDOW_MS  == 2
SLEEP_MARGIN_MS == 1

\* ------------------------------------------------------ program constants
DEFAULT_TIMEOUT_MS == 30000
DEFAULT_CONCURRENCY == 5     \* opts.concurrency ?? 5
DEFAULT_DELAY_MS == 100      \* opts.delayMs ?? 100

\* ------------------------------------------------------------ value sets
SessionKeys    == {"k"}
JsonValues     == {"v1"}
BigIntValue    == "10n"
ContextValues  == JsonValues \cup {BigIntValue}
ProgressTexts  == {"step1", "step2"}
ReturnValues   == {"undefined", "v1"}
\* keys of the dispatch table, in insertion order (two of the source's keys)
dispatchTableKeys == <<"tasks.get", "users.me">>
RegisteredKeys == {dispatchTableKeys[i] : i \in DOMAIN dispatchTableKeys}
ScriptCallKeys == {"tasks.get", "unknown.op"}
CallerTimeouts == {50}

\* things a script or a dispatch function can throw
\* (str is String(err); an Error's message is a sequence of text parts)
SdkError    == [isError |-> TRUE, message |-> <<"not found">>, code |-> "NOT_FOUND", fix |-> <<"check the gid">>, str |-> "Error: not found"]
ThrownValue == [isError |-> FALSE, message |-> <<"undefined">>, code |-> "undefined", fix |-> <<"undefined">>, str |-> "oops"]
Throwables  == {SdkError, ThrownValue}

\* outcomes of a dispatch-table function (an SDK operation)
DispatchOutcomes == {[ok |-> TRUE, value |-> "task"]} \cup {[ok |-> FALSE, thrown |-> t] : t \in Throwables}

\* SandboxOpts of one call: signal is "default" when opts.signal is absent,
\* "timeout" for a caller's AbortSignal.timeout(timeoutMs) (server.ts) and
\* "aborted" for a caller's signal that is already aborted.
OptsSet ==
  { [signal |-> "default", timeoutMs |-> DEFAULT_TIMEOUT_MS, onProgress |-> b] : b \in BOOLEAN }
  \cup { [signal |-> "timeout", timeoutMs |-> t, onProgress |-> b] : t \in CallerTimeouts, b \in BOOLEAN }
  \cup { [signal |-> "aborted", timeoutMs |-> 0, onProgress |-> b] : b \in BOOLEAN }

\* the options handleToolsCall passes: AbortSignal.timeout(timeoutMs) with
\* timeoutMs = timeout_ms or 30000, and its onProgress
ServerOpts ==
  { [signal |-> "timeout", timeoutMs |-> t, onProgress |-> TRUE] : t \in CallerTimeouts \cup {30000} }

NoResult == [none |-> TRUE]
NoOpts   == [signal |-> "none", timeoutMs |-> 0, onProgress |-> FALSE]
NoExit   == [running |-> TRUE]
NoParallel == [pc |-> "idle"]
NoBatch    == [pc |-> "idle"]
NoPager    == [pc |-> "idle"]
NoDeps     == [pc |-> "idle"]
NoServer   == [pc |-> "off"]

VARIABLES
  \* connection
  session,          \* SessionState: Map from key to value
  sessionObserved,  \* the last call of onSessionUpdate: its arguments and the store at the call
  invocations,      \* number of executeInSandbox calls so far
  \* one invocation of executeInSandbox
  opts,             \* its SandboxOpts
  promise,          \* "none", "pending", "resolved", "rejected"
  settled,          \* let settled
  worker,           \* let worker: "none", "running", "terminated"
  blobUrl,          \* "none", "live", "revoked"
  result,           \* the value the promise was resolved with
  progressMessages, \* const progressMessages (result.progressMessages is this array)
  signalAborted,    \* signal.aborted
  abortListener,    \* "none", "registered", "fired" (once: true)
  \* the worker thread
  wstate,           \* "none", "running", "finished" (entry point returned or threw)
  nextId,           \* __bridge.nextId
  pending,          \* __bridge.pending: ids of unsettled call promises
  wcontext,         \* target object of the context proxy
  w2m,              \* messages posted by the worker, not yet handled by the host
  m2w,              \* responses posted to the worker, not yet handled by it
  \* the bridge
  calls,            \* handleWorkerCall activations, by call id
  timestamps,       \* RateLimiter._timestamps
  now,              \* Date.now()
  \* observation (not program state)
  resolveCalls,     \* calls of resolve()
  terminateCalls,   \* calls of worker.terminate()
  revokeCalls,      \* calls of URL.revokeObjectURL(blobUrl)
  settledBy,        \* event whose settle() call produced the result
  onProgressCalls,  \* arguments of the calls of opts.onProgress
  progressSeen,     \* texts of the Progress messages handled before settlement
  posted,           \* responses passed to worker.postMessage
  callPromise,      \* by call id, the settlements of its promise in the worker
  issued,           \* ids of the Call messages the worker posted, in order
  written,          \* the script's context assignments, in order
  exit,             \* how the script's entry point ended, and with what
  nOps, nErrors,
  \* the callers of SpecRL
  acq,              \* by caller, the state of its acquire() call
  \* the SDK helpers
  par,              \* closure state of one parallel() call
  batch,            \* local state of one runBatch() call
  client,           \* one AsanaClient: its workspace cache and the calls on it
  pager,            \* local state of one paginate() call
  deps,             \* the dependency graph and one addDependency() call
  server            \* the stdio server: its loop, its input lines and the lines it wrote

sdkVars == << par, batch, client, pager, deps >>

vars == << session, sessionObserved, invocations, opts, promise, settled, worker, blobUrl, result,
           progressMessages, signalAborted, abortListener, wstate, nextId, pending,
           wcontext, w2m, m2w, calls, timestamps, now, resolveCalls, terminateCalls,
           revokeCalls, settledBy, onProgressCalls, progressSeen, posted, callPromise,
           issued, written, exit, nOps, nErrors, acq, sdkVars, server >>

hostVars   == << opts, promise, settled, worker, blobUrl, result, signalAborted, abortListener,
                 resolveCalls, terminateCalls, revokeCalls, settledBy >>
settleVars == << promise, settled, worker, blobUrl, result,
                 resolveCalls, terminateCalls, revokeCalls, settledBy >>
workerVars == << wstate, nextId, pending, wcontext, callPromise, issued, written, exit, nOps >>
bridgeVars == << calls, timestamps, posted >>
progressVars == << progressMessages, onProgressCalls, progressSeen >>

EmptyMap == [k \in {} |-> "undefined"]

\* createClient(config): let workspaceCache (undefined), no call made yet
NewClient == [workspaceCache |-> [unset |-> TRUE], calls |-> <<>>]

\* Map.prototype.set / property assignment
MapSet(m, k, v) == [x \in (DOMAIN m) \cup {k} |-> IF x = k THEN v ELSE m[x]]

\* ---------------------------------------------------------------- session
createSession == EmptyMap

\* an empty snapshot, whatever the store holds
snapshotSession_Empty(s) == EmptyMap

snapshotSession(s) == [k \in DOMAIN s |-> s[k]]

\* an update that replaces the whole store
applySessionUpdate_ReplaceAll(s, key, value) == MapSet(EmptyMap, key, value)

\* an update that keeps the value a key already has
applySessionUpdate_KeepFirst(s, key, value) ==
  IF key \in DOMAIN s THEN s ELSE MapSet(s, key, value)

applySessionUpdate(s, key, value) == MapSet(s, key, value)

\* onSessionUpdate has not been called
NotObserved == [none |-> TRUE]

\* a handler that invokes the observer before it updates the store
HandleSessionUpdate_ObserverFirst(s, key, value) ==
  [session |-> applySessionUpdate(s, key, value),
   observed |-> [key |-> key, value |-> value, store |-> s]]

\* the session-update branch of the message handler:
\* applySessionUpdate(session, msg.key, msg.value), then
\* onSessionUpdate(msg.key, msg.value)
HandleSessionUpdate(s, key, value) ==
  LET applied == applySessionUpdate(s, key, value) IN
  [session |-> applied, observed |-> [key |-> key, value |-> value, store |-> applied]]

\* JSON.stringify(sessionSnapshot) in buildWorkerPreamble: a TypeError for a
\* BigInt, otherwise the object literal the worker's context starts from.
JsonStringifyThrows(obj) == \E k \in DOMAIN obj : obj[k] = BigIntValue

\* ----------------------------------------------------------- rate limiter
RECURSIVE Evict(_, _)
\* while (_timestamps.length > 0 && _timestamps[0] < now - RATE_WINDOW_MS) shift()
Evict(ts, t) ==
  IF Len(ts) > 0 /\ Head(ts) < t - RATE_WINDOW_MS THEN Evict(Tail(ts), t) ELSE ts

\* a wait of the margin alone
SleepFor_MarginOnly(ts, t) == SLEEP_MARGIN_MS

\* wait = RATE_WINDOW_MS - (now - oldest) + 10
SleepFor(ts, t) == RATE_WINDOW_MS - (t - Head(ts)) + SLEEP_MARGIN_MS

\* acquire() from its call to its first await or its return, at instant t:
\* the array after the step and, when the caller sleeps, the instant its
\* Bun.sleep(wait) ends (wakeAt = -1: admitted without sleeping)
AcquireEnter(ts, t) ==
  LET ev == Evict(ts, t) IN
  IF Len(ev) >= RATE_LIMIT_RPM
  THEN [timestamps |-> ev, wakeAt |-> t + SleepFor(ev, t)]
  ELSE [timestamps |-> Append(ev, t), wakeAt |-> -1]

\* an acquire() that records nothing after its sleep
AcquireResume_NoPush(ts, t) == ts

\* acquire() after its sleep, at instant t: this._timestamps.push(Date.now())
AcquireResume(ts, t) == Append(ts, t)

\* admissions recorded in the trailing window that ends at instant t
InWindow(ts, t) == {i \in DOMAIN ts : ts[i] > t - RATE_WINDOW_MS}

\* ------------------------------------------------------------- settlement
HostState ==
  [settled |-> settled, worker |-> worker, blobUrl |-> blobUrl, promise |-> promise,
   result |-> result, resolveCalls |-> resolveCalls, terminateCalls |-> terminateCalls,
   revokeCalls |-> revokeCalls, settledBy |-> settledBy]

\* settle without its "if (settled) return" guard (resolve() itself keeps
\* the promise's first value)
settle_NoGuard(h, r, by) ==
  [h EXCEPT !.settled = TRUE,
            !.worker = IF h.worker = "none" THEN "none" ELSE "terminated",
            !.terminateCalls = IF h.worker = "none" THEN @ ELSE @ + 1,
            !.blobUrl = "revoked",
            !.revokeCalls = @ + 1,
            !.resolveCalls = @ + 1,
            !.promise = "resolved",
            !.result = IF h.promise = "resolved" THEN @ ELSE r,
            !.settledBy = IF h.promise = "resolved" THEN @ ELSE by]

\* settle that leaves the worker running
settle_NoTerminate(h, r, by) ==
  IF h.settled THEN h
  ELSE [h EXCEPT !.settled = TRUE,
                 !.blobUrl = "revoked",
                 !.revokeCalls = @ + 1,
                 !.resolveCalls = @ + 1,
                 !.promise = "resolved",
                 !.result = r,
                 !.settledBy = by]

\* function settle(result) of executeInSandbox, on the closure state h
settle(h, r, by) ==
  IF h.settled THEN h
  ELSE [h EXCEPT !.settled = TRUE,
                 !.worker = IF h.worker = "none" THEN "none" ELSE "terminated",
                 !.terminateCalls = IF h.worker = "none" THEN @ ELSE @ + 1,
                 !.blobUrl = "revoked",
                 !.revokeCalls = @ + 1,
                 !.resolveCalls = @ + 1,
                 !.promise = "resolved",
                 !.result = IF h.promise = "resolved" THEN @ ELSE r,
                 !.settledBy = IF h.promise = "resolved" THEN @ ELSE by]

SetHost(h) ==
  /\ settled' = h.settled
  /\ worker' = h.worker
  /\ blobUrl' = h.blobUrl
  /\ promise' = h.promise
  /\ result' = h.result
  /\ resolveCalls' = h.resolveCalls
  /\ terminateCalls' = h.terminateCalls
  /\ revokeCalls' = h.revokeCalls
  /\ settledBy' = h.settledBy

\* the results the four listeners and the creation failure build
CreateFailedResult == [ok |-> FALSE, error |-> [message |-> <<"Failed to create worker: ", "no workers">>, code |-> "undefined", fix |-> <<"undefined">>]]
\* a done result that drops the value
DoneResult_NoValue(msg) == [ok |-> TRUE, value |-> "null"]
DoneResult(msg)    == [ok |-> TRUE, value |-> msg.value]
FatalResult(msg)   == [ok |-> FALSE, error |-> msg.error]
\* event.message ?? "Worker error"
ErrorEventResult(eventMessage) ==
  [ok |-> FALSE, error |-> [message |-> IF eventMessage = "undefined" THEN <<"Worker error">> ELSE <<eventMessage>>,
                            code |-> "undefined", fix |-> <<"undefined">>]]
TimeoutResult ==
  [ok |-> FALSE, error |-> [message |-> <<"Script timed out after ", ToString(DEFAULT_TIMEOUT_MS), "ms">>,
                            code |-> "COMMAND_FAILED",
                            fix |-> <<"Break the script into smaller steps or increase the timeout.">>]]

\* ------------------------------------------------------------------ Init
Init ==
  /\ session = createSession
  /\ sessionObserved = NotObserved
  /\ invocations = 0
  /\ opts = NoOpts
  /\ promise = "none"
  /\ settled = FALSE
  /\ worker = "none"
  /\ blobUrl = "none"
  /\ result = NoResult
  /\ progressMessages = <<>>
  /\ signalAborted = FALSE
  /\ abortListener = "none"
  /\ wstate = "none"
  /\ nextId = 0
  /\ pending = {}
  /\ wcontext = EmptyMap
  /\ w2m = <<>>
  /\ m2w = <<>>
  /\ calls = EmptyMap
  /\ timestamps = <<>>
  /\ now = 0
  /\ resolveCalls = 0
  /\ terminateCalls = 0
  /\ revokeCalls = 0
  /\ settledBy = "none"
  /\ onProgressCalls = <<>>
  /\ progressSeen = <<>>
  /\ posted = <<>>
  /\ callPromise = EmptyMap
  /\ issued = <<>>
  /\ written = <<>>
  /\ exit = NoExit
  /\ nOps = 0
  /\ nErrors = 0
  /\ acq = EmptyMap
  /\ par = NoParallel
  /\ batch = NoBatch
  /\ client = NewClient
  /\ pager = NoPager
  /\ deps = NoDeps
  /\ server = NoServer

\* ------------------------------------------------------ executeInSandbox
\* closure state of a new invocation, before the Promise executor runs
FreshHost ==
  [settled |-> FALSE, worker |-> "none", blobUrl |-> "live", promise |-> "pending",
   result |-> NoResult, resolveCalls |-> 0, terminateCalls |-> 0, revokeCalls |-> 0,
   settledBy |-> "none"]

\* executeInSandbox(userCode, client, session, o) up to its return; createOk
\* is whether new Worker(blobUrl) succeeds.  The caller awaits one invocation
\* before it starts the next (server.ts, handleToolsCall), and the messages
\* the previous worker left behind have been delivered or discarded by then.
StartInvocation(o, createOk) ==
  /\ promise \in {"none", "resolved", "rejected"}
  /\ invocations < MaxInvocations
  /\ w2m = <<>>
  /\ invocations' = invocations + 1
  /\ opts' = o
  /\ progressMessages' = <<>>
  /\ onProgressCalls' = <<>>
  /\ progressSeen' = <<>>
  /\ nextId' = 0 /\ pending' = {} /\ callPromise' = EmptyMap
  /\ issued' = <<>> /\ written' = <<>> /\ exit' = NoExit
  /\ nOps' = 0 /\ nErrors' = 0
  /\ m2w' = <<>> /\ calls' = EmptyMap /\ posted' = <<>>
  /\ IF JsonStringifyThrows(snapshotSession(session))
     THEN \* buildWorkerScript throws: the async function's promise rejects
          /\ promise' = "rejected"
          /\ settled' = FALSE /\ worker' = "none" /\ blobUrl' = "none"
          /\ result' = NoResult /\ settledBy' = "none"
          /\ resolveCalls' = 0 /\ terminateCalls' = 0 /\ revokeCalls' = 0
          /\ signalAborted' = FALSE /\ abortListener' = "none"
          /\ wstate' = "none" /\ wcontext' = EmptyMap
          /\ UNCHANGED timestamps
     ELSE /\ timestamps' = <<>>
          /\ signalAborted' = (o.signal = "aborted")
          /\ IF createOk
             THEN /\ SetHost([FreshHost EXCEPT !.worker = "running"])
                  /\ wstate' = "running"
                  /\ wcontext' = snapshotSession(session)
                  /\ abortListener' = "registered"
             ELSE /\ SetHost(settle(FreshHost, CreateFailedResult, "create"))
                  /\ wstate' = "none"
                  /\ wcontext' = EmptyMap
                  /\ abortListener' = "none"
  /\ UNCHANGED << session, sessionObserved, w2m, now, acq, sdkVars >>

\* executeInSandbox called by a caller other than the stdio server
executeInSandbox(o, createOk) == StartInvocation(o, createOk) /\ UNCHANGED server

\* ------------------------------------------------------- the stdio server
\* (src/mcp/server.ts)  A line of stdin is a record; n is its position in
\* the input, which stands for the id its sender gave it.
NoToken == [undef |-> TRUE]

\* the input lines of the model: a line that is not JSON, a ping, the
\* initialized notification, and tools/call requests for another tool and
\* for execute, with and without params._meta.progressToken and timeout_ms
InputLines ==
  { [method |-> "{not json"], [method |-> "ping"], [method |-> "initialized"],
    [method |-> "tools/call", name |-> "other"] }
  \cup { [method |-> "tools/call", name |-> "execute", progressToken |-> NoToken, timeoutMs |-> 30000],
         [method |-> "tools/call", name |-> "execute", progressToken |-> [token |-> "tok"], timeoutMs |-> 50] }

\* makeNotification("notifications/message", ...) at the start
StartedLine == [kind |-> "notification", method |-> "notifications/message", n |-> 0]

\* makeResponse(id, result) and makeError(id, code, message)
makeResponse(n, r) == [kind |-> "response", n |-> n, result |-> r]
makeError(n, code) == [kind |-> "error", n |-> n, code |-> code]

\* makeNotification("notifications/progress", {progressToken, progress, message})
ProgressLine(call, message) ==
  [kind |-> "notification", method |-> "notifications/progress", n |-> call.n,
   progressToken |-> call.progressToken, progress |-> call.progressCount + 1, message |-> message]

sendLine(srv, line) == [srv EXCEPT !.out = Append(@, line)]

\* the lines handleToolsCall returns for a SandboxResult
ToolResultLine(n, r, progress) ==
  IF r.ok
  THEN makeResponse(n, [isError |-> FALSE, ok |-> TRUE, progress |-> progress])
  ELSE makeResponse(n, [isError |-> TRUE, ok |-> FALSE, progress |-> progress])

\* a loop that goes on to the next line while the invocation runs
PcDuringCall_NoAwait == "reading"

\* response = await handleToolsCall(...): the loop waits
PcDuringCall == "awaiting"

\* the onProgress callback handleToolsCall passes: with a progressToken it
\* writes one notification with ++progressCount
onProgress(srv, message) ==
  IF srv.pc = "off" \/ "n" \notin DOMAIN srv.call \/ srv.call.progressToken = NoToken THEN srv
  ELSE [sendLine(srv, ProgressLine(srv.call, message)) EXCEPT !.call.progressCount = @ + 1]

\* handleToolsCall after its await and the sendLine(response) of the loop:
\* they run when the invocation's promise settles
AfterExecute(srv, p, r, progress) ==
  IF srv.pc # "awaiting" \/ p = "pending" THEN srv
  ELSE [sendLine(srv, IF p = "rejected" THEN makeError(srv.call.n, "INTERNAL_ERROR")
                      ELSE ToolResultLine(srv.call.n, r, progress))
          EXCEPT !.pc = "reading"]

\* startMcpServer() up to its first read of stdin
startMcpServer ==
  /\ server.pc = "off"
  /\ invocations = 0
  /\ server' = [pc |-> "reading", stdin |-> <<>>, arrived |-> 0, taken |-> 0,
                out |-> <<StartedLine>>, call |-> [none |-> TRUE]]
  /\ UNCHANGED << session, sessionObserved, invocations, hostVars, progressVars, workerVars, w2m, m2w,
                  bridgeVars, now, nErrors, acq, sdkVars >>

\* a line arrives on stdin
StdinLine(line) ==
  /\ server.pc # "off"
  /\ server.arrived < MaxRequests
  /\ server' = [server EXCEPT !.stdin = Append(@, line), !.arrived = @ + 1]
  /\ UNCHANGED << session, sessionObserved, invocations, hostVars, progressVars, workerVars, w2m, m2w,
                  bridgeVars, now, nErrors, acq, sdkVars >>

\* One iteration of the loop over the lines, up to its continue, its
\* sendLine or the await of handleToolsCall.
HandleLine(createOk) ==
  /\ server.pc = "reading"
  /\ server.stdin # <<>>
  /\ LET line == Head(server.stdin)
         n == server.taken + 1
         srv == [server EXCEPT !.stdin = Tail(@), !.taken = n] IN
     IF line.method = "tools/call" /\ line.name = "execute"
     THEN /\ StartInvocation([signal |-> "timeout", timeoutMs |-> line.timeoutMs, onProgress |-> TRUE],
                             createOk)
          /\ server' = AfterExecute(
               [srv EXCEPT !.pc = PcDuringCall,
                           !.call = [n |-> n, progressToken |-> line.progressToken, progressCount |-> 0]],
               promise', result', progressMessages')
     ELSE /\ server' =
               CASE line.method = "{not json" -> sendLine(srv, makeError(n, "PARSE_ERROR"))
                 [] line.method = "initialized" -> srv
                 [] line.method = "ping" -> sendLine(srv, makeResponse(n, [isError |-> FALSE]))
                 [] line.method = "tools/call" -> sendLine(srv, makeError(n, "INVALID_PARAMS"))
                 [] OTHER -> sendLine(srv, makeError(n, "METHOD_NOT_FOUND"))
          /\ UNCHANGED << session, sessionObserved, invocations, hostVars, progressVars, workerVars,
                          w2m, m2w, bridgeVars, now, nErrors, acq, sdkVars >>

\* ------------------------------------------------------------ the worker
WorkerRuns == worker = "running" /\ wstate = "running"

\* asana.<namespace>.<method>(...): __bridge.call
WCall(key) ==
  /\ WorkerRuns
  /\ nextId < MaxCalls
  /\ nOps < MaxScriptOps
  /\ nOps' = nOps + 1
  /\ nextId' = nextId + 1
  /\ pending' = pending \cup {nextId}
  /\ callPromise' = MapSet(callPromise, nextId, <<>>)
  /\ w2m' = Append(w2m, [type |-> "call", id |-> nextId, key |-> key])
  /\ issued' = Append(issued, nextId)
  /\ UNCHANGED << session, sessionObserved, invocations, hostVars, progressVars, wstate, wcontext, written, exit, m2w,
                  bridgeVars, now, nErrors, acq, sdkVars, server >>

\* progress(message)
WProgress(text) ==
  /\ WorkerRuns
  /\ nOps < MaxScriptOps
  /\ nOps' = nOps + 1
  /\ w2m' = Append(w2m, [type |-> "progress", message |-> text])
  /\ UNCHANGED << session, sessionObserved, invocations, hostVars, progressVars, wstate, nextId, pending,
                  wcontext, callPromise, issued, written, exit, m2w, bridgeVars, now, nErrors, acq, sdkVars, server >>

\* context[key] = value: the set trap of the context proxy
WContextSet(key, value) ==
  /\ WorkerRuns
  /\ nOps < MaxScriptOps
  /\ nOps' = nOps + 1
  /\ wcontext' = MapSet(wcontext, key, value)
  /\ w2m' = Append(w2m, [type |-> "session-update", key |-> key, value |-> value])
  /\ written' = Append(written, [key |-> key, value |-> value])
  /\ UNCHANGED << session, sessionObserved, invocations, hostVars, progressVars, wstate, nextId, pending,
                  callPromise, issued, exit, m2w, bridgeVars, now, nErrors, acq, sdkVars, server >>

\* the entry point returns v: .then posts done with result ?? null
WReturn(v) ==
  /\ WorkerRuns
  /\ wstate' = "finished"
  /\ exit' = [returned |-> v]
  /\ w2m' = Append(w2m, [type |-> "done", value |-> IF v = "undefined" THEN "null" ELSE v])
  /\ UNCHANGED << session, sessionObserved, invocations, hostVars, progressVars, nextId, pending,
                  wcontext, callPromise, issued, written, m2w, bridgeVars, now, nOps, nErrors, acq, sdkVars, server >>

\* a fatal message that carries the message alone
FatalError_MessageOnly(err) ==
  [message |-> IF err.message = <<"undefined">> THEN <<err.str>> ELSE err.message,
   code |-> "undefined", fix |-> <<"undefined">>]

\* err?.message ?? String(err), err?.code, err?.fix
FatalError(err) ==
  [message |-> IF err.message = <<"undefined">> THEN <<err.str>> ELSE err.message,
   code |-> err.code, fix |-> err.fix]

\* the entry point throws err: .catch posts fatal
WThrow(err) ==
  /\ WorkerRuns
  /\ wstate' = "finished"
  /\ exit' = [threw |-> err]
  /\ w2m' = Append(w2m, [type |-> "fatal", error |-> FatalError(err)])
  /\ UNCHANGED << session, sessionObserved, invocations, hostVars, progressVars, nextId, pending,
                  wcontext, callPromise, issued, written, m2w, bridgeVars, now, nOps, nErrors, acq, sdkVars, server >>

\* the worker's listener on an Error response:
\* Object.assign(new Error(msg.error.message), msg.error)
RejectionError(resp) ==
  [isError |-> TRUE, message |-> resp.error.message, code |-> resp.error.code,
   fix |-> resp.error.fix, str |-> "Error"]

\* the script does not catch the rejection of call id: the entry point
\* throws the error the call promise was rejected with
WUncaught(id) ==
  /\ WorkerRuns
  /\ id \in DOMAIN callPromise
  /\ Len(callPromise[id]) = 1
  /\ callPromise[id][1].type = "error"
  /\ wstate' = "finished"
  /\ exit' = [threw |-> RejectionError(callPromise[id][1]), of |-> id]
  /\ w2m' = Append(w2m, [type |-> "fatal", error |-> FatalError(RejectionError(callPromise[id][1]))])
  /\ UNCHANGED << session, sessionObserved, invocations, hostVars, progressVars, nextId, pending,
                  wcontext, callPromise, issued, written, m2w, bridgeVars, now, nOps, nErrors, acq, sdkVars, server >>

\* a lookup that takes the oldest pending call, whatever the response's id
PendingGet_Oldest(pend, id) ==
  IF pend = {} THEN {} ELSE {CHOOSE i \in pend : \A j \in pend : i <= j}

\* __bridge.pending.get(msg.id)
PendingGet(pend, id) == IF id \in pend THEN {id} ELSE {}

\* the worker's message listener, on the next response
WRecv ==
  /\ worker = "running"
  /\ m2w # <<>>
  /\ LET msg == Head(m2w)
         p == PendingGet(pending, msg.id) IN
     /\ m2w' = Tail(m2w)
     /\ pending' = pending \ p
     /\ callPromise' = [i \in DOMAIN callPromise |->
                          IF i \in p THEN Append(callPromise[i], msg) ELSE callPromise[i]]
  /\ UNCHANGED << session, sessionObserved, invocations, hostVars, progressVars, wstate, nextId,
                  wcontext, issued, written, exit, w2m, bridgeVars, now, nOps, nErrors, acq, sdkVars, server >>

\* ------------------------------------------------------------ the bridge
\* (outcome: how the dispatch function settled, once it has)
CallState(st, key, wakeAt) == [st |-> st, key |-> key, wakeAt |-> wakeAt, outcome |-> <<>>]

\* handleWorkerCall: the response for a key the table does not hold
UnknownMethodResponse(id, key) ==
  [type |-> "error", id |-> id,
   error |-> [message |-> <<"Unknown SDK method: ", key>>,
              code |-> "INVALID_INPUT",
              fix |-> <<"Use one of the documented asana.* methods. Available: ">> \o dispatchTableKeys]]

\* a catch block without the instanceof test
CaughtError_NoInstanceof(thrown) ==
  [message |-> thrown.message, code |-> thrown.code, fix |-> thrown.fix]

\* handleWorkerCall: the catch block's error object
CaughtError(thrown) ==
  IF thrown.isError
  THEN [message |-> thrown.message, code |-> thrown.code, fix |-> thrown.fix]
  ELSE [message |-> <<thrown.str>>, code |-> "undefined", fix |-> <<"undefined">>]

\* handleWorkerCall: the response once the dispatch function has settled
DispatchResponse(id, outcome) ==
  IF outcome.ok
  THEN [type |-> "result", id |-> id, value |-> outcome.value]
  ELSE [type |-> "error", id |-> id, error |-> CaughtError(outcome.thrown)]

\* .then((response) => worker.postMessage(response)); a terminated worker
\* receives nothing
PostToWorker(response) ==
  /\ posted' = Append(posted, response)
  /\ m2w' = IF worker = "running" THEN Append(m2w, response) ELSE m2w

\* a handler that takes a slot of the limiter before it looks the key up
handleWorkerCall_AcquireFirst(msg) ==
  LET a == AcquireEnter(timestamps, now) IN
  /\ timestamps' = a.timestamps
  /\ IF msg.key \notin RegisteredKeys
     THEN /\ PostToWorker(UnknownMethodResponse(msg.id, msg.key))
          /\ calls' = MapSet(calls, msg.id, CallState("responded", msg.key, -1))
     ELSE /\ calls' = MapSet(calls, msg.id,
                        CallState(IF a.wakeAt = -1 THEN "dispatching" ELSE "sleeping", msg.key, a.wakeAt))
          /\ UNCHANGED << posted, m2w >>

\* handleWorkerCall(msg, ...) from its call to its first suspension
handleWorkerCall(msg) ==
  IF msg.key \notin RegisteredKeys
  THEN /\ PostToWorker(UnknownMethodResponse(msg.id, msg.key))
       /\ calls' = MapSet(calls, msg.id, CallState("responded", msg.key, -1))
       /\ UNCHANGED timestamps
  ELSE LET a == AcquireEnter(timestamps, now) IN
       /\ timestamps' = a.timestamps
       /\ calls' = MapSet(calls, msg.id,
                     CallState(IF a.wakeAt = -1 THEN "dispatching" ELSE "sleeping", msg.key, a.wakeAt))
       /\ UNCHANGED << posted, m2w >>

\* a progress callback that records the text and calls nobody
HandleProgress_NoCallback(text) ==
  /\ progressMessages' = Append(progressMessages, text)
  /\ onProgressCalls' = onProgressCalls
  /\ progressSeen' = IF settled THEN progressSeen ELSE Append(progressSeen, text)

\* the progress callback executeInSandbox hands to createMessageHandler,
\* with onProgress = opts.onProgress ?? ((msg) => progressMessages.push(msg))
HandleProgress(text) ==
  /\ progressMessages' = IF opts.onProgress THEN Append(progressMessages, text)
                         ELSE Append(Append(progressMessages, text), text)
  /\ onProgressCalls' = IF opts.onProgress THEN Append(onProgressCalls, text) ELSE onProgressCalls
  /\ progressSeen' = IF settled THEN progressSeen ELSE Append(progressSeen, text)

\* One message event of the worker: the listener createMessageHandler
\* returns, then the done/fatal listener of executeInSandbox.
DeliverMessage ==
  /\ w2m # <<>>
  /\ LET msg == Head(w2m) IN
     /\ w2m' = Tail(w2m)
     /\ IF msg.type = "call"
        THEN handleWorkerCall(msg)
        ELSE UNCHANGED << bridgeVars, m2w >>
     /\ IF msg.type = "progress"
        THEN HandleProgress(msg.message)
        ELSE UNCHANGED progressVars
     /\ IF msg.type = "session-update"
        THEN LET h == HandleSessionUpdate(session, msg.key, msg.value) IN
             session' = h.session /\ sessionObserved' = h.observed
        ELSE UNCHANGED << session, sessionObserved >>
     /\ IF msg.type = "done"
        THEN SetHost(settle(HostState, DoneResult(msg), "done"))
        ELSE IF msg.type = "fatal"
             THEN SetHost(settle(HostState, FatalResult(msg), "fatal"))
             ELSE UNCHANGED settleVars
     /\ server' = IF msg.type = "progress"
                  THEN onProgress(server, msg.message)
                  ELSE AfterExecute(server, promise', result', progressMessages')
  /\ UNCHANGED << invocations, opts, signalAborted, abortListener, workerVars, now, nErrors, acq, sdkVars >>

\* A message of a terminated worker that the runtime discards.
DropMessage ==
  /\ worker = "terminated"
  /\ w2m # <<>>
  /\ w2m' = Tail(w2m)
  /\ UNCHANGED << session, sessionObserved, invocations, hostVars, progressVars, workerVars, m2w,
                  bridgeVars, now, nErrors, acq, sdkVars, server >>

\* An error event of the worker (syntax error, throw outside the entry point).
WorkerErrorEvent(eventMessage) ==
  /\ worker # "none"
  /\ nErrors < MaxErrorEvents
  /\ nErrors' = nErrors + 1
  /\ SetHost(settle(HostState, ErrorEventResult(eventMessage), "error"))
  /\ server' = AfterExecute(server, promise', result', progressMessages)
  /\ UNCHANGED << session, sessionObserved, invocations, opts, signalAborted, abortListener, progressVars,
                  workerVars, w2m, m2w, bridgeVars, now, acq, sdkVars >>

\* The signal aborts: its abort event runs the listener registered with
\* once: true.  A signal that was aborted before the registration fires
\* no event.
Abort ==
  /\ abortListener = "registered"
  /\ ~signalAborted
  /\ signalAborted' = TRUE
  /\ abortListener' = "fired"
  /\ SetHost(settle(HostState, TimeoutResult, "timeout"))
  /\ server' = AfterExecute(server, promise', result', progressMessages)
  /\ UNCHANGED << session, sessionObserved, invocations, opts, progressVars, workerVars, w2m, m2w,
                  bridgeVars, now, nErrors, acq, sdkVars >>

\* rateLimiter.acquire() returns after its sleep; handleWorkerCall goes on
\* to call the dispatch function.
Wake(id) ==
  /\ id \in DOMAIN calls
  /\ calls[id].st = "sleeping"
  /\ now >= calls[id].wakeAt
  /\ timestamps' = AcquireResume(timestamps, now)
  /\ calls' = [calls EXCEPT ![id].st = "dispatching"]
  /\ UNCHANGED << session, sessionObserved, invocations, hostVars, progressVars, workerVars, w2m, m2w,
                  posted, now, nErrors, acq, sdkVars, server >>

\* The dispatch function of a call settles; handleWorkerCall returns its
\* response, which is posted to the worker.
DispatchComplete(id, outcome) ==
  /\ id \in DOMAIN calls
  /\ calls[id].st = "dispatching"
  /\ calls' = [calls EXCEPT ![id].st = "responded", ![id].outcome = <<outcome>>]
  /\ PostToWorker(DispatchResponse(id, outcome))
  /\ UNCHANGED << session, sessionObserved, invocations, hostVars, progressVars, workerVars, w2m,
                  timestamps, now, nErrors, acq, sdkVars, server >>

\* The clock is read by acquire() only: on a call message and after a sleep.
ClockObserved ==
  \/ w2m # <<>> /\ Head(w2m).type = "call" /\ Head(w2m).key \in RegisteredKeys
  \/ \E id \in DOMAIN calls : calls[id].st = "sleeping"

\* The clock advances (where an acquire() can observe it).
Tick ==
  /\ now < MaxNow
  /\ ClockObserved
  /\ now' = now + 1
  /\ UNCHANGED << session, sessionObserved, invocations, hostVars, progressVars, workerVars, w2m, m2w,
                  bridgeVars, nErrors, acq, sdkVars, server >>

\* The execution host with the session store and the progress trail: the
\* scripts of this specification write the context, report progress, return
\* and throw.  Calls of asana.* touch none of this state; SpecBridge has them.
Next ==
  \/ \E o \in OptsSet, createOk \in BOOLEAN : executeInSandbox(o, createOk)
  \/ \E text \in ProgressTexts : WProgress(text)
  \/ \E key \in SessionKeys, value \in ContextValues : WContextSet(key, value)
  \/ \E v \in ReturnValues : WReturn(v)
  \/ \E err \in Throwables : WThrow(err)
  \/ DeliverMessage
  \/ DropMessage
  \/ \E m \in {"undefined", "SyntaxError"} : WorkerErrorEvent(m)
  \/ Abort

Spec == Init /\ [][Next]_vars

\* The event loop of the host runs every task that is ready: the abort event
\* of a signal that has not aborted yet (its timer expires), and the message
\* events of the worker.  A script may loop forever: no fairness for the
\* worker's steps.
FairSpec == Init /\ [][Next]_vars /\ WF_vars(Abort) /\ WF_vars(DeliverMessage)

\* The stdio server of one connection: lines arrive on stdin at any time,
\* the loop handles them, and the scripts of tools/call report progress,
\* write a context key, return or run until the timeout.
NextServer ==
  \/ startMcpServer
  \/ \E line \in InputLines : StdinLine(line)
  \/ \E createOk \in BOOLEAN : HandleLine(createOk)
  \/ WProgress("step1")
  \/ WContextSet("k", BigIntValue)
  \/ WReturn("v1")
  \/ DeliverMessage
  \/ DropMessage
  \/ Abort

SpecServer == Init /\ [][NextServer]_vars

\* The session store under every kind of event: scripts that write two
\* context keys, report progress, call asana.* methods, return and throw,
\* over the invocations of one connection.  The limiter's clock stands
\* still here (a call that has to sleep stays asleep); SpecBridge has it.
StoreWrites == { <<"k", "v1">>, <<"k", "v2">>, <<"j", "v1">> }

NextStore ==
  \/ \E o \in ServerOpts : executeInSandbox(o, TRUE)
  \/ \E kv \in StoreWrites : WContextSet(kv[1], kv[2])
  \/ WProgress("step1")
  \/ WCall("tasks.get")
  \/ WReturn("v1")
  \/ WThrow(SdkError)
  \/ WRecv
  \/ DeliverMessage
  \/ DropMessage
  \/ WorkerErrorEvent("undefined")
  \/ Abort
  \/ \E id \in 0..(MaxCalls - 1) : DispatchComplete(id, [ok |-> TRUE, value |-> "task"])

SpecStore == Init /\ [][NextStore]_vars

\* The bridge, in one invocation (the dispatch table, the limiter and the
\* worker's __bridge are created per invocation): the scripts of this
\* specification call asana.* methods, return and throw, as the stdio server
\* runs them.
NextBridge ==
  \/ \E o \in ServerOpts : invocations = 0 /\ executeInSandbox(o, TRUE)
  \/ \E key \in ScriptCallKeys : WCall(key)
  \/ \E v \in ReturnValues : WReturn(v)
  \/ \E err \in Throwables : WThrow(err)
  \/ \E id \in 0..(MaxCalls - 1) : WUncaught(id)
  \/ WRecv
  \/ DeliverMessage
  \/ DropMessage
  \/ Abort
  \/ \E id \in 0..(MaxCalls - 1) : Wake(id)
  \/ \E id \in 0..(MaxCalls - 1), outcome \in DispatchOutcomes : DispatchComplete(id, outcome)
  \/ Tick

SpecBridge == Init /\ [][NextBridge]_vars


\* ------------------------------------------------ the rate limiter alone
\* Callers of acquire() on one RateLimiter; caller c is the c-th to call.
allButLimiter ==
  << session, sessionObserved, invocations, hostVars, progressVars, workerVars, w2m, m2w, calls, posted, nErrors,
     sdkVars, server >>

\* a limiter that fails the call when the limit is reached
AcquireCall_Reject(c) ==
  /\ c \notin DOMAIN acq
  /\ c = Cardinality(DOMAIN acq)
  /\ LET a == AcquireEnter(timestamps, now) IN
     /\ timestamps' = a.timestamps
     /\ acq' = MapSet(acq, c,
                 [st |-> IF a.wakeAt = -1 THEN "admitted" ELSE "rejected",
                  calledAt |-> now, wakeAt |-> a.wakeAt,
                  admittedAt |-> IF a.wakeAt = -1 THEN now ELSE -1])
  /\ UNCHANGED << allButLimiter, now >>

\* acquire() is called: it runs to its return or to its Bun.sleep(wait)
AcquireCall(c) ==
  /\ c \notin DOMAIN acq
  /\ c = Cardinality(DOMAIN acq)
  /\ LET a == AcquireEnter(timestamps, now) IN
     /\ timestamps' = a.timestamps
     /\ acq' = MapSet(acq, c,
                 [st |-> IF a.wakeAt = -1 THEN "admitted" ELSE "sleeping",
                  calledAt |-> now, wakeAt |-> a.wakeAt,
                  admittedAt |-> IF a.wakeAt = -1 THEN now ELSE -1])
  /\ UNCHANGED << allButLimiter, now >>

\* Bun.sleep(wait) ends: acquire() records Date.now() and returns
AcquireWake(c) ==
  /\ c \in DOMAIN acq
  /\ acq[c].st = "sleeping"
  /\ now >= acq[c].wakeAt
  /\ timestamps' = AcquireResume(timestamps, now)
  /\ acq' = [acq EXCEPT ![c].st = "admitted", ![c].admittedAt = now]
  /\ UNCHANGED << allButLimiter, now >>

\* The clock advances: up to MaxNowRL, and beyond it while a caller's sleep
\* has not ended yet.
TickRL ==
  /\ \/ now < MaxNowRL
     \/ \E c \in DOMAIN acq : acq[c].st = "sleeping" /\ now < acq[c].wakeAt
  /\ now' = now + 1
  /\ UNCHANGED << allButLimiter, timestamps, acq, sdkVars, server >>

NextRL ==
  \/ \E c \in 0..(MaxAcquirers - 1) : AcquireCall(c)
  \/ \E c \in 0..(MaxAcquirers - 1) : AcquireWake(c)
  \/ TickRL

SpecRL == Init /\ [][NextRL]_vars

\* Time passes, and the timer of a Bun.sleep whose wait is over runs its
\* continuation.  Nothing obliges anyone to call acquire().
FairSpecRL ==
  /\ Init /\ [][NextRL]_vars
  /\ WF_vars(TickRL)
  /\ \A c \in 0..(MaxAcquirers - 1) : WF_vars(AcquireWake(c))


\* ------------------------------------------------------------ parallel()
\* (src/sdk/parallel.ts)  A factory is an async function ("async": its
\* promise settles later), a function that throws before it returns a
\* promise ("throws"), or a hole of the array ("missing").
mcpVars ==
  << session, sessionObserved, invocations, hostVars, progressVars, workerVars, w2m, m2w, calls, posted, nErrors,
     timestamps, now, acq, server >>

FactoryKinds == {"async", "throws", "missing"}

RECURSIVE SeqsUpTo(_, _)
\* the sequences over S of length n or less
SeqsUpTo(S, n) ==
  IF n = 0 THEN {<<>>}
  ELSE LET shorter == SeqsUpTo(S, n - 1) IN
       shorter \cup {Append(q, x) : q \in {r \in shorter : Len(r) = n - 1}, x \in S}

\* ParallelOpts: each of concurrency and delayMs is present or absent
ParallelOptsSet ==
  { [k \in S |-> IF k = "concurrency" THEN c ELSE d] :
      S \in SUBSET {"concurrency", "delayMs"}, c \in 1..MaxConcurrency, d \in {0, 100} }

EmptySlot == [empty |-> TRUE]

\* async function runNext(), from its call to its first await or its return
runNext(p) ==
  IF p.nextIndex >= Len(p.promises) THEN p
  ELSE LET index == p.nextIndex
           kind == p.promises[index + 1]
           q == [p EXCEPT !.nextIndex = @ + 1] IN
       CASE kind = "missing" -> q
         [] kind = "throws" ->
              [q EXCEPT !.started[index] = @ + 1,
                        !.fstate[index] = "settled",
                        !.results[index] = [ok |-> FALSE, index |-> index]]
         [] OTHER ->
              [q EXCEPT !.started[index] = @ + 1,
                        !.fstate[index] = "running",
                        !.inFlight = @ + 1]

\* a launch test that lets one factory too many through
SlotTaken_OffByOne(p) == p.inFlight > p.concurrency

\* while (inFlight >= concurrency)
SlotTaken(p) == p.inFlight >= p.concurrency

RECURSIVE RunLoop(_)
\* the for loop of parallel() from the top of iteration p.i to its next
\* await: Bun.sleep(10), Bun.sleep(delayMs) or Promise.all(queue)
RunLoop(p) ==
  IF p.i >= Len(p.promises) THEN [p EXCEPT !.pc = "join"]
  ELSE IF SlotTaken(p) THEN [p EXCEPT !.pc = "sleep10"]
  ELSE LET q == [runNext(p) EXCEPT !.queue = @ + 1] IN
       IF q.delayMs > 0 THEN [q EXCEPT !.pc = "delay"]
       ELSE RunLoop([q EXCEPT !.i = @ + 1])

\* parallel(promises, o) is called
parallel(ps, o) ==
  /\ par.pc = "idle"
  /\ LET idx == 0..(Len(ps) - 1) IN
     par' = RunLoop(
       [promises |-> ps,
        concurrency |-> IF "concurrency" \in DOMAIN o THEN o["concurrency"] ELSE DEFAULT_CONCURRENCY,
        delayMs |-> IF "delayMs" \in DOMAIN o THEN o["delayMs"] ELSE DEFAULT_DELAY_MS,
        results |-> [k \in idx |-> EmptySlot],
        nextIndex |-> 0, inFlight |-> 0, queue |-> 0, i |-> 0, pc |-> "run",
        fstate |-> [k \in idx |-> "idle"],
        started |-> [k \in idx |-> 0]])
  /\ UNCHANGED << mcpVars, batch, client, pager, deps >>

\* A Bun.sleep of the loop ends: the loop checks for a free slot again
\* (after Bun.sleep(10)) or goes to its next iteration (after
\* Bun.sleep(delayMs)).
SleepEnds ==
  /\ par.pc \in {"sleep10", "delay"}
  /\ par' = IF par.pc = "sleep10" THEN RunLoop(par) ELSE RunLoop([par EXCEPT !.i = @ + 1])
  /\ UNCHANGED << mcpVars, batch, client, pager, deps >>

\* The promise of factory index settles: runNext resumes after its await,
\* stores the result and leaves through finally.
FactorySettles(index, ok) ==
  /\ par.pc # "idle"
  /\ index \in DOMAIN par.fstate
  /\ par.fstate[index] = "running"
  /\ par' = [par EXCEPT !.fstate[index] = "settled",
                        !.results[index] = [ok |-> ok, index |-> index],
                        !.inFlight = @ - 1]
  /\ UNCHANGED << mcpVars, batch, client, pager, deps >>

\* Promise.all(queue) fulfils once every runNext() has returned
ParallelReturns ==
  /\ par.pc = "join"
  /\ \A k \in DOMAIN par.fstate : par.fstate[k] # "running"
  /\ par' = [par EXCEPT !.pc = "returned"]
  /\ UNCHANGED << mcpVars, batch, client, pager, deps >>

NextParallel ==
  \/ \E ps \in SeqsUpTo(FactoryKinds, MaxFactories), o \in ParallelOptsSet : parallel(ps, o)
  \/ SleepEnds
  \/ \E index \in 0..(MaxFactories - 1), ok \in BOOLEAN : FactorySettles(index, ok)
  \/ ParallelReturns

SpecParallel == Init /\ [][NextParallel]_vars

\* ------------------------------------------------------------- runBatch()
\* (src/sdk/batch.ts)  JavaScript values are tagged: a string is [str |-> s]
\* with s the sequence of its parts between dots ("$steps.0.result.gid" is
\* <<"$steps", "0", "result", "gid">>), an object is [obj |-> f] with f the
\* function from its keys to their values.
Str(parts) == [str |-> parts]
Bool(b)    == [bool |-> b]
Obj(f)     == [obj |-> f]
Undefined  == [undef |-> TRUE]

\* typeof value === "object" && value !== null
isObject(value) == "obj" \in DOMAIN value

\* Number(s) for the index part of a reference; NaN is -1
NumberOf(s) ==
  CASE s = "0" -> 0
    [] s = "1" -> 1
    [] s = "2" -> 2
    [] s = "3" -> 3
    [] s = "" -> 0
    [] OTHER -> -1

\* command.trim() and .startsWith("batch"), on the commands of the model
Trim(command) == IF command = " batch run" THEN "batch run" ELSE command
StartsWithBatch(command) == command \in {"batch run"}

\* what sdkError(message, code, fix) throws
PlanError(message) == [thrown |-> Obj([message |-> Str(message), code |-> Str(<<"BATCH_PLAN_INVALID">>)])]

RECURSIVE WalkPath(_, _, _, _)
\* the for loop of resolveStepRef from part i on
WalkPath(current, parts, i, expression) ==
  IF i > Len(parts) THEN [value |-> current]
  ELSE IF ~isObject(current) \/ parts[i] \notin DOMAIN current.obj
       THEN PlanError(<<"Batch reference could not be resolved">> \o expression)
       ELSE WalkPath(current.obj[parts[i]], parts, i + 1, expression)

\* resolveStepRef(expression, results): [value |-> v] or [thrown |-> e]
resolveStepRef(expression, results) ==
  IF ~(Len(expression) >= 2 /\ expression[1] = "$steps") THEN [value |-> Str(expression)]
  ELSE LET index == NumberOf(expression[2]) IN
       IF index < 0 \/ index >= Len(results)
       THEN PlanError(<<"Invalid batch reference">> \o expression)
       ELSE WalkPath(results[index + 1], expression, 3, expression)

\* resolveStepArgs(input, results), for args that are absent or an object
\* of strings
resolveStepArgs(input, results) ==
  IF "str" \in DOMAIN input THEN resolveStepRef(input.str, results)
  ELSE IF isObject(input)
  THEN LET r == [k \in DOMAIN input.obj |-> resolveStepRef(input.obj[k].str, results)]
           failed == {k \in DOMAIN r : "thrown" \in DOMAIN r[k]} IN
       IF failed # {} THEN r[CHOOSE k \in failed : TRUE]
       ELSE [value |-> Obj([k \in DOMAIN r |-> r[k].value])]
  ELSE [value |-> input]

\* the steps of the plans: a step is undefined, or has a command and args
ArgStrings ==
  { <<"Sub">>, <<"$steps", "0", "result", "gid">>, <<"$steps", "1", "result", "gid">>,
    <<"$steps", "0", "command">> }
StepArgs == {Undefined} \cup {Obj([parent |-> Str(a)]) : a \in ArgStrings}
BatchSteps ==
  {Undefined} \cup {[command |-> " batch run", args |-> Undefined]}
  \cup {[command |-> "subtask-add", args |-> a] : a \in StepArgs}

\* BatchOpts: stopOnError is present or absent
BatchOptsSet == { [k \in S |-> b] : S \in SUBSET {"stopOnError"}, b \in BOOLEAN }

\* how a call of sdkDispatch settles: with an object, with a thrown Error,
\* with a thrown string
BatchOutcomes ==
  { [ok |-> TRUE, value |-> Obj([gid |-> Str(<<"created123">>)])],
    [ok |-> FALSE, err |-> Obj([message |-> Str(<<"fail">>), code |-> Str(<<"NOT_FOUND">>),
                                fix |-> Str(<<"check the gid">>)])],
    [ok |-> FALSE, err |-> Str(<<"oops">>)] }

\* a batch that never stops unless told to
StopOnError_DefaultFalse(o) == "stopOnError" \in DOMAIN o /\ o["stopOnError"]

\* opts.stopOnError !== false
StopOnError(o) == ~("stopOnError" \in DOMAIN o /\ ~o["stopOnError"])

\* the entry results.push() adds for a settled dispatch
StepResult(step, outcome) ==
  IF outcome.ok
  THEN Obj([ok |-> Bool(TRUE), command |-> Str(<<step.command>>), result |-> outcome.value])
  ELSE Obj([ok |-> Bool(FALSE), command |-> Str(<<step.command>>),
            error |-> IF isObject(outcome.err)
                      THEN Obj([message |-> outcome.err.obj.message, code |-> outcome.err.obj.code])
                      ELSE outcome.err,
            fix |-> IF isObject(outcome.err) THEN outcome.err.obj.fix ELSE Undefined])

\* the for loop of runBatch from the top of iteration b.i to its await, its
\* return or a throw
RunBatchLoop(b) ==
  IF b.i >= Len(b.steps) THEN [b EXCEPT !.pc = "returned"]
  ELSE LET step == b.steps[b.i + 1] IN
       IF "command" \notin DOMAIN step
       THEN [b EXCEPT !.pc = "thrown", !.thrown = PlanError(<<"Invalid batch step">>).thrown]
       ELSE IF StartsWithBatch(Trim(step.command))
       THEN [b EXCEPT !.pc = "thrown", !.thrown = PlanError(<<"Nested batch commands are not allowed.">>).thrown]
       ELSE LET resolvedArgs == resolveStepArgs(step.args, b.results) IN
            IF "thrown" \in DOMAIN resolvedArgs
            THEN [b EXCEPT !.pc = "thrown", !.thrown = resolvedArgs.thrown]
            ELSE [b EXCEPT !.pc = "awaiting",
                           !.dispatched = Append(@, [index |-> b.i, command |-> Trim(step.command),
                                                     args |-> resolvedArgs.value])]

\* runBatch(client, steps, sdkDispatch, o) is called
runBatch(steps, o) ==
  /\ batch.pc = "idle"
  /\ batch' = RunBatchLoop(
       [steps |-> steps, opts |-> o, stopOnError |-> StopOnError(o), results |-> <<>>, i |-> 0,
        pc |-> "run", thrown |-> Undefined, dispatched |-> <<>>, outcomes |-> <<>>])
  /\ UNCHANGED << mcpVars, par, client, pager, deps >>

\* The promise of the pending sdkDispatch call settles: runBatch pushes the
\* step's result and breaks, or goes on to the next step.
BatchDispatchSettles(outcome) ==
  /\ batch.pc = "awaiting"
  /\ LET b == [batch EXCEPT !.results = Append(@, StepResult(batch.steps[batch.i + 1], outcome)),
                            !.outcomes = Append(@, outcome)] IN
     batch' = IF ~outcome.ok /\ b.stopOnError
              THEN [b EXCEPT !.pc = "returned"]
              ELSE RunBatchLoop([b EXCEPT !.i = @ + 1])
  /\ UNCHANGED << mcpVars, par, client, pager, deps >>

NextBatch ==
  \/ \E steps \in SeqsUpTo(BatchSteps, MaxSteps), o \in BatchOptsSet : runBatch(steps, o)
  \/ \E outcome \in BatchOutcomes : BatchDispatchSettles(outcome)

SpecBatch == Init /\ [][NextBatch]_vars

\* -------------------------------------------------- client.getWorkspace()
\* (src/sdk/client.ts)
\* how resolveWorkspace(request, config) settles: with the workspace it
\* picked from a fetched list, with an SdkError after a fetched list (no
\* workspace, reference not found), or with the error of a failed fetch
ResolveOutcomes ==
  { [fetched |-> TRUE, ok |-> TRUE, workspace |-> [gid |-> g, source |-> "fallback"]] : g \in {"100", "200"} }
  \cup { [fetched |-> TRUE, ok |-> FALSE, code |-> "NO_WORKSPACE"],
         [fetched |-> FALSE, ok |-> FALSE, code |-> "API_ERROR"] }

CacheIsSet(c) == "gid" \in DOMAIN c.workspaceCache

\* client.getWorkspace() or client.getWorkspaceGid() is called: with a
\* cached workspace it returns it, otherwise it calls resolveWorkspace and
\* awaits it
getWorkspace(method) ==
  /\ Len(client.calls) < MaxClientCalls
  /\ client' =
       IF CacheIsSet(client)
       THEN [client EXCEPT !.calls = Append(@, [method |-> method, st |-> "returned", fetched |-> FALSE,
                                                 workspace |-> client.workspaceCache])]
       ELSE [client EXCEPT !.calls = Append(@, [method |-> method, st |-> "resolving", fetched |-> FALSE,
                                                 workspace |-> client.workspaceCache])]
  /\ UNCHANGED << mcpVars, par, batch, pager, deps >>

\* resolveWorkspace of call c settles: the call stores the workspace in
\* workspaceCache and returns workspaceCache, or throws
ResolveSettles(c, outcome) ==
  /\ c \in DOMAIN client.calls
  /\ client.calls[c].st = "resolving"
  /\ client' =
       IF outcome.ok
       THEN [client EXCEPT !.workspaceCache = outcome.workspace,
                           !.calls[c].st = "returned",
                           !.calls[c].fetched = TRUE,
                           !.calls[c].workspace = outcome.workspace]
       ELSE [client EXCEPT !.calls[c].st = "threw",
                           !.calls[c].fetched = outcome.fetched]
  /\ UNCHANGED << mcpVars, par, batch, pager, deps >>

NextClient ==
  \/ \E method \in {"getWorkspace", "getWorkspaceGid"} : getWorkspace(method)
  \/ \E c \in 1..MaxClientCalls, outcome \in ResolveOutcomes : ResolveSettles(c, outcome)

SpecClient == Init /\ [][NextClient]_vars

\* ------------------------------------------------------------- paginate()
\* (src/sdk/http.ts)  The server holds a list of pages; page i is answered
\* to the request without offset (i = 1) or with offset i.  A page is
\* [array, n, next]: its data is an array of n items or is not an array,
\* and next tells whether it carries next_page.offset (the offset of page
\* i + 1).  Item k of page i is <<i, k>>.
PageSet ==
  { [array |-> TRUE, n |-> n, next |-> x] : n \in 0..MaxPageItems, x \in BOOLEAN }
  \cup { [array |-> FALSE, n |-> 0, next |-> x] : x \in BOOLEAN }

\* the page lists of the model: the last page carries no offset
PageLists ==
  { ps \in SeqsUpTo(PageSet, MaxPages) : Len(ps) >= 1 /\ ~ps[Len(ps)].next }

\* maxItems is absent or a count
MaxItemsSet == {Undefined} \cup { [num |-> m] : m \in 0..MaxItemsArg }

NoOffset == [none |-> TRUE]

\* Array.isArray(res.data) ? res.data : []
Chunk(pages, i) == IF pages[i].array THEN [k \in 1..pages[i].n |-> << i, k >>] ELSE <<>>

\* res.next_page?.offset
NextPageOffset(pages, i) == IF pages[i].next THEN [offset |-> i + 1] ELSE NoOffset

\* chunk.slice(0, remaining)
Slice(chunk, remaining) == SubSeq(chunk, 1, IF Len(chunk) < remaining THEN Len(chunk) ELSE remaining)

\* an offset that follows next_page whatever was collected
OffsetAfter_AlwaysNext(chunkLength, remaining, nextPage) == nextPage

\* chunk.length >= remaining ? undefined : res.next_page?.offset
OffsetAfter(chunkLength, remaining, nextPage) ==
  IF chunkLength >= remaining THEN NoOffset ELSE nextPage

\* the request at the top of the do loop: GET path with the query, and
\* with the offset when there is one
IssueRequest(p) == [p EXCEPT !.pc = "awaiting", !.requests = Append(@, p.offset)]

\* while (offset !== undefined)
LoopOrReturn(p) == IF "offset" \in DOMAIN p.offset THEN IssueRequest(p) ELSE [p EXCEPT !.pc = "returned"]

\* paginate(request, path, query, maxItems) is called
paginate(pages, maxItems) ==
  /\ pager.pc = "idle"
  /\ pager' = IssueRequest(
       [pages |-> pages, maxItems |-> maxItems, all |-> <<>>, offset |-> NoOffset,
        requests |-> <<>>, pc |-> "run"])
  /\ UNCHANGED << mcpVars, par, batch, client, deps >>

\* The pending request settles: with an error paginate throws; with a page
\* the loop body runs to the next request or to the return.
PageRequestSettles(ok) ==
  /\ pager.pc = "awaiting"
  /\ LET i == IF "offset" \in DOMAIN pager.offset THEN pager.offset.offset ELSE 1
         chunk == Chunk(pager.pages, i)
         nextPage == NextPageOffset(pager.pages, i) IN
     pager' =
       IF ~ok THEN [pager EXCEPT !.pc = "threw"]
       ELSE IF "num" \in DOMAIN pager.maxItems
       THEN LET remaining == pager.maxItems.num - Len(pager.all) IN
            IF remaining <= 0 THEN [pager EXCEPT !.pc = "returned"]
            ELSE LoopOrReturn([pager EXCEPT !.all = @ \o Slice(chunk, remaining),
                                            !.offset = OffsetAfter(Len(chunk), remaining, nextPage)])
       ELSE LoopOrReturn([pager EXCEPT !.all = @ \o chunk, !.offset = nextPage])
  /\ UNCHANGED << mcpVars, par, batch, client, deps >>

NextPager ==
  \/ pager.pc = "idle" /\ \E pages \in PageLists, maxItems \in MaxItemsSet : paginate(pages, maxItems)
  \/ \E ok \in BOOLEAN : PageRequestSettles(ok)

SpecPager == Init /\ [][NextPager]_vars

\* --------------------------------------------------------- addDependency()
\* (src/sdk/dependencies.ts)  The tasks of the workspace are numbered; the
\* graph maps a task to the set of tasks it is blocked by, which GET
\* /tasks/<gid> lists in ascending order.
TaskGids == 1..3
DepGraphs == [TaskGids -> SUBSET TaskGids]

RECURSIVE Ascending(_)
\* the tasks of S as the list the server answers
Ascending(S) ==
  IF S = {} THEN <<>>
  ELSE LET m == CHOOSE x \in S : \A y \in S : x <= y IN <<m>> \o Ascending(S \ {m})

RECURSIVE PushUnvisited(_, _, _)
\* for (const dep of deps) if (!visited.has(dep.gid)) queue.push(dep.gid)
PushUnvisited(queue, list, visited) ==
  IF list = <<>> THEN queue
  ELSE PushUnvisited(IF Head(list) \in visited THEN queue ELSE Append(queue, Head(list)),
                     Tail(list), visited)

\* what sdkError(message, "DEPENDENCY_CYCLE_RISK", fix) throws
CycleRisk(d) == [d EXCEPT !.pc = "thrown", !.code = "DEPENDENCY_CYCLE_RISK"]

RECURSIVE SearchLoop(_)
\* hasCycleRisk from the top of its while loop to its next request, and
\* then addDependency to its throw or to the POST of addDependencies
SearchLoop(d) ==
  IF d.queue = <<>> \/ d.visits >= MAX_VISITS
  THEN [d EXCEPT !.pc = "posting", !.mutations = @ + 1]
  ELSE LET current == Head(d.queue)
           e == [d EXCEPT !.queue = Tail(@)] IN
       IF current \in d.visited THEN SearchLoop(e)
       ELSE LET f == [e EXCEPT !.visited = @ \cup {current}, !.visits = @ + 1] IN
            IF current = d.taskGid THEN CycleRisk(f)
            ELSE [f EXCEPT !.pc = "fetching", !.current = current]

\* addDependency(client, taskGid, blockedByGid) is called
addDependency(graph, taskGid, blockedByGid) ==
  /\ deps.pc = "idle"
  /\ LET d == [graph |-> graph, taskGid |-> taskGid, blockedByGid |-> blockedByGid,
               visited |-> {}, queue |-> <<blockedByGid>>, visits |-> 0, current |-> 0,
               mutations |-> 0, code |-> "none", pc |-> "run"] IN
     deps' = IF taskGid = blockedByGid THEN CycleRisk(d) ELSE SearchLoop(d)
  /\ UNCHANGED << mcpVars, par, batch, client, pager >>

\* The GET /tasks/<current> of the search settles: with an error
\* hasCycleRisk throws, with the task the search goes on.
DepRequestSettles(ok) ==
  /\ deps.pc = "fetching"
  /\ deps' = IF ~ok THEN [deps EXCEPT !.pc = "thrown", !.code = "API_ERROR"]
             ELSE SearchLoop([deps EXCEPT !.queue = PushUnvisited(@, Ascending(deps.graph[deps.current]),
                                                                  deps.visited)])
  /\ UNCHANGED << mcpVars, par, batch, client, pager >>

\* the POST /tasks/<taskGid>/addDependencies settles
MutationSettles(ok) ==
  /\ deps.pc = "posting"
  /\ deps' = IF ok THEN [deps EXCEPT !.pc = "returned"]
             ELSE [deps EXCEPT !.pc = "thrown", !.code = "API_ERROR"]
  /\ UNCHANGED << mcpVars, par, batch, client, pager >>

NextDeps ==
  \/ deps.pc = "idle" /\ \E graph \in DepGraphs, taskGid \in TaskGids, blockedByGid \in TaskGids :
       addDependency(graph, taskGid, blockedByGid)
  \/ \E ok \in BOOLEAN : DepRequestSettles(ok)
  \/ \E ok \in BOOLEAN : MutationSettles(ok)

SpecDeps == Init /\ [][NextDeps]_vars


\* ============================================================ properties
Range(f) == {f[i] : i \in DOMAIN f}

\* a step in which one of the four settling events is handled
DoneHandled  == w2m # <<>> /\ Head(w2m).type = "done" /\ w2m' = Tail(w2m) /\ worker # "terminated"
FatalHandled == w2m # <<>> /\ Head(w2m).type = "fatal" /\ w2m' = Tail(w2m) /\ worker # "terminated"
ErrorHandled == nErrors' = nErrors + 1
AbortHandled == abortListener = "registered" /\ abortListener' = "fired"
LateMessage  == w2m # <<>> /\ Head(w2m).type \in {"done", "fatal"} /\ w2m' = Tail(w2m)
SettlingEvent == DoneHandled \/ FatalHandled \/ ErrorHandled \/ AbortHandled \/ LateMessage

\* C1: the promise of an invocation is resolved exactly once, by the first
\* of the done message, the fatal message, the worker's error event and the
\* abort event to be handled, with the result that event builds; every
\* later one of these events leaves the promise and its result as they are.
C1_SettledOnceByFirstEvent ==
  [][ /\ (promise = "pending" /\ SettlingEvent) =>
           /\ promise' = "resolved"
           /\ resolveCalls' = 1
           /\ \/ DoneHandled /\ result' = DoneResult(Head(w2m))
              \/ FatalHandled /\ result' = FatalResult(Head(w2m))
              \/ ErrorHandled /\ \E m \in {"undefined", "SyntaxError"} : result' = ErrorEventResult(m)
              \/ AbortHandled /\ result' = TimeoutResult
      /\ (promise = "resolved" /\ invocations' = invocations) =>
           /\ promise' = "resolved"
           /\ resolveCalls' = resolveCalls
           /\ result' = result
           /\ settledBy' = settledBy
    ]_vars

\* done settled the invocation; two error events and the abort event were
\* handled after it
C1_Witness ==
  /\ promise = "resolved" /\ settledBy = "done" /\ result.ok
  /\ nErrors = 2 /\ abortListener = "fired"

\* C2 (as claimed): the promise executeInSandbox returns never rejects.
C2_NeverRejects == promise # "rejected"

\* C3 (as claimed): every invocation whose promise is pending is eventually
\* settled, whatever the script does and whatever signal the caller passed.
C3_EventuallySettles == [](promise = "pending" => <>(promise = "resolved"))

\* C4: worker.terminate() and URL.revokeObjectURL are called at settlement
\* and only then: never before, once by the settling event (terminate only
\* if the worker was created), and not again by later events.
C4_TornDownOnce ==
  /\ promise = "pending" => (terminateCalls = 0 /\ revokeCalls = 0 /\ worker = "running" /\ blobUrl = "live")
  /\ promise = "resolved" =>
       /\ revokeCalls = 1 /\ blobUrl = "revoked"
       /\ worker \in {"none", "terminated"}
       /\ terminateCalls = IF worker = "none" THEN 0 ELSE 1
       /\ worker = "none" <=> settledBy = "create"
  /\ promise = "rejected" => (blobUrl = "none" /\ worker = "none" /\ terminateCalls = 0 /\ revokeCalls = 0)

\* the error event settled the invocation; the abort event and a late done
\* or fatal message were handled after it
C4_Witness ==
  /\ promise = "resolved" /\ settledBy = "error" /\ worker = "terminated"
  /\ abortListener = "fired" /\ wstate = "finished" /\ w2m = <<>>
  /\ terminateCalls = 1 /\ revokeCalls = 1

\* C5 (as claimed): at every instant at most RATE_LIMIT_RPM recorded
\* admissions are newer than now - RATE_WINDOW_MS.
C5_WindowHoldsAtMostLimit == Cardinality(InWindow(timestamps, now)) <= RATE_LIMIT_RPM

\* indexes of the responses posted for call id
ResponsesFor(id) == {i \in DOMAIN posted : posted[i].id = id}

\* what the claim says the response to call c (state of handleWorkerCall)
\* is
ResponseAsClaimed(resp, c) ==
  IF c.key \notin RegisteredKeys
  THEN resp.type = "error" /\ resp.error.code = "INVALID_INPUT"
  ELSE LET o == c.outcome[1] IN
       IF o.ok
       THEN resp.type = "result" /\ resp.value = o.value
       ELSE /\ resp.type = "error"
            /\ IF o.thrown.isError
               THEN /\ resp.error.message = o.thrown.message
                    /\ resp.error.code = o.thrown.code
                    /\ resp.error.fix = o.thrown.fix
               ELSE resp.error.message = <<o.thrown.str>>

\* C6: for every Call message the bridge handled, no response is posted
\* while handleWorkerCall is suspended and exactly one, carrying the call's
\* id, once it has returned: a Result with the dispatch function's value, or
\* an Error for a lookup miss or a dispatch failure (the thrown error's
\* message, code and fix, or the stringified thrown value).
C6_OneResponsePerCall ==
  /\ \A i \in DOMAIN posted : posted[i].id \in DOMAIN calls
  /\ \A id \in DOMAIN calls :
       /\ calls[id].st \in {"sleeping", "dispatching", "responded"}
       /\ Cardinality(ResponsesFor(id)) = IF calls[id].st = "responded" THEN 1 ELSE 0
       /\ \A i \in ResponsesFor(id) : ResponseAsClaimed(posted[i], calls[id])

\* a lookup miss and a dispatch function that threw a non-Error value, both
\* answered
C6_Witness ==
  \E a, b \in DOMAIN calls :
    /\ calls[a].key \notin RegisteredKeys /\ calls[a].st = "responded"
    /\ calls[b].st = "responded" /\ calls[b].outcome = <<[ok |-> FALSE, thrown |-> ThrownValue]>>
    /\ Len(posted) = 2

C8_TimeoutNamesDuration ==
  (promise = "resolved" /\ settledBy = "timeout") =>
     /\ ~result.ok
     /\ ToString(opts.timeoutMs) \in Range(result.error.message)
     /\ result.error.fix = <<"Break the script into smaller steps or increase the timeout.">>

\* C9 (as claimed): at settlement, result.progressMessages is the sequence
\* of the texts of the Progress messages handled so far.
C9_ProgressTrailExact ==
  [][ (promise = "pending" /\ promise' = "resolved") => progressMessages' = progressSeen' ]_vars

\* the last value the script assigned to context[k]
LastWritten(k) ==
  LET idx == {i \in DOMAIN written : written[i].key = k} IN
  written[CHOOSE i \in idx : \A j \in idx : j <= i].value

\* C10: once an invocation has settled on done or fatal, the session store
\* maps every key the script assigned to the last value assigned to it.
C10_WritesReachStore ==
  (promise = "resolved" /\ settledBy \in {"done", "fatal"}) =>
     \A k \in {written[i].key : i \in DOMAIN written} :
        k \in DOMAIN session /\ session[k] = LastWritten(k)

\* two writes of different values to one key, then done
C10_Witness ==
  /\ promise = "resolved" /\ settledBy = "done"
  /\ Len(written) = 2 /\ written[1].key = written[2].key /\ written[1].value # written[2].value
  /\ session[written[2].key] = written[2].value

\* a step in which the host handles a SessionUpdate message
SessionUpdateHandled == w2m # <<>> /\ Head(w2m).type = "session-update" /\ w2m' = Tail(w2m)

CallHandled ==
  /\ w2m # <<>> /\ Head(w2m).type = "call" /\ w2m' = Tail(w2m)
  /\ Head(w2m).id \in DOMAIN calls'

\* C12: a Call whose key the dispatch table does not hold is answered, in
\* the step that handles it, by one Error response with the call's id, code
\* INVALID_INPUT, a message that contains the key and a fix that lists every
\* registered key; the limiter's record is left as it is and the call never
\* reaches a dispatch function.
C12_UnknownMethodAnswered ==
  [][ /\ (CallHandled /\ Head(w2m).key \notin RegisteredKeys) =>
           LET msg == Head(w2m)
               r == posted'[Len(posted')] IN
           /\ timestamps' = timestamps
           /\ Len(posted') = Len(posted) + 1
           /\ r.type = "error" /\ r.id = msg.id
           /\ r.error.code = "INVALID_INPUT"
           /\ msg.key \in Range(r.error.message)
           /\ RegisteredKeys \subseteq Range(r.error.fix)
           /\ calls'[msg.id].st = "responded" /\ calls'[msg.id].outcome = <<>>
      /\ \A id \in DOMAIN calls :
           (calls[id].key \notin RegisteredKeys /\ invocations' = invocations) =>
              (id \in DOMAIN calls' /\ calls'[id] = calls[id])
    ]_vars

\* two calls of an unregistered method were answered and the worker has
\* settled both promises; the limiter recorded nothing
C12_Witness ==
  /\ DOMAIN calls = {0, 1}
  /\ \A id \in DOMAIN calls : calls[id].key = "unknown.op" /\ calls[id].st = "responded"
  /\ Len(posted) = 2 /\ timestamps = <<>>
  /\ \A id \in DOMAIN callPromise : Len(callPromise[id]) = 1 /\ callPromise[id][1].type = "error"

\* C13: a call of acquire() is either asleep or admitted, never failed, and
\* every call is eventually admitted, whatever calls came before it and
\* whatever calls are asleep with it.
C13_EveryAcquireReturns ==
  /\ [](\A c \in DOMAIN acq : acq[c].st \in {"sleeping", "admitted"})
  /\ \A c \in 0..(MaxAcquirers - 1) :
       (c \in DOMAIN acq) ~> (c \in DOMAIN acq /\ acq[c].st = "admitted")

\* two callers found the limit reached at the same instant, slept together
\* and were both admitted later
C13_Witness ==
  /\ DOMAIN acq = {0, 1, 2}
  /\ \A c \in DOMAIN acq : acq[c].st = "admitted"
  /\ acq[1].calledAt = acq[2].calledAt
  /\ acq[1].admittedAt > acq[1].calledAt /\ acq[2].admittedAt > acq[2].calledAt

\* admissions recorded at or after t - RATE_WINDOW_MS
Recorded(ts, t) == {i \in DOMAIN ts : ts[i] >= t - RATE_WINDOW_MS}

\* the oldest of them
OldestRecorded(ts, t) ==
  ts[CHOOSE i \in Recorded(ts, t) : \A j \in Recorded(ts, t) : ts[i] <= ts[j]]

ProgressHandled ==
  /\ w2m # <<>> /\ Head(w2m).type = "progress" /\ w2m' = Tail(w2m)
  /\ progressMessages' # progressMessages

\* C15: with a caller's onProgress, the step that handles a Progress
\* message calls it once with the message's text, after the calls for the
\* earlier messages, and no other step of the invocation calls it; when
\* done or fatal settles the invocation, it has been called for every
\* progress() call of the script (the script's operations are its
\* progress() calls and its context writes).
C15_OnProgressOncePerMessage ==
  [][ opts.onProgress =>
        /\ ProgressHandled => onProgressCalls' = Append(onProgressCalls, Head(w2m).message)
        /\ (~ProgressHandled /\ invocations' = invocations) => onProgressCalls' = onProgressCalls
        /\ (promise = "pending" /\ (DoneHandled \/ FatalHandled)) =>
             Len(onProgressCalls') = nOps - Len(written)
    ]_vars

\* two progress() calls with different texts, then done: the caller's
\* callback was called for both before the settlement
C15_Witness ==
  /\ opts.onProgress /\ promise = "resolved" /\ settledBy = "done"
  /\ Len(onProgressCalls) = 2 /\ onProgressCalls[1] # onProgressCalls[2]
  /\ onProgressCalls = progressSeen

\* C16: when done is the settling event the entry point has returned, and
\* the result is ok:true with the value it returned, null if it returned
\* undefined.
C16_ReturnValueResolved ==
  (promise = "resolved" /\ settledBy = "done") =>
     /\ DOMAIN exit = {"returned"}
     /\ result = [ok |-> TRUE,
                  value |-> IF exit.returned = "undefined" THEN "null" ELSE exit.returned]

\* a script that made two progress() calls or context writes and returned
\* a value, resolved with that value
C16_Witness ==
  /\ promise = "resolved" /\ settledBy = "done" /\ nOps = 2
  /\ exit = [returned |-> "v1"] /\ result.ok /\ result.value = "v1"

\* C17: when fatal is the settling event the entry point has thrown, and
\* the result is ok:false with the thrown error's message (the stringified
\* value if it has none), code and fix; if what it threw is the rejection
\* of a call of an unregistered method, the code is INVALID_INPUT and the
\* message contains the key.
C17_ThrownErrorResolved ==
  (promise = "resolved" /\ settledBy = "fatal") =>
     /\ "threw" \in DOMAIN exit
     /\ ~result.ok
     /\ result.error.message =
          IF exit.threw.message = <<"undefined">> THEN <<exit.threw.str>> ELSE exit.threw.message
     /\ result.error.code = exit.threw.code
     /\ result.error.fix = exit.threw.fix
     /\ ("of" \in DOMAIN exit /\ calls[exit.of].key \notin RegisteredKeys) =>
          /\ result.error.code = "INVALID_INPUT"
          /\ calls[exit.of].key \in Range(result.error.message)
          /\ RegisteredKeys \subseteq Range(result.error.fix)

\* the script called an unregistered method and did not catch the
\* rejection; the invocation resolved with the bridge's error
C17_Witness ==
  /\ promise = "resolved" /\ settledBy = "fatal"
  /\ "of" \in DOMAIN exit /\ calls[exit.of].key = "unknown.op"
  /\ result.error.code = "INVALID_INPUT"

\* factories that were started and whose promise has not settled
InFlightFactories == {k \in DOMAIN par.fstate : par.fstate[k] = "running"}

\* C18: while parallel() runs, at most concurrency factories are started
\* and unsettled; no factory is started twice, and when parallel() returns
\* every factory has been started once and has settled.
C18_AtMostConcurrencyInFlight ==
  par.pc # "idle" =>
    /\ Cardinality(InFlightFactories) <= par.concurrency
    /\ par.inFlight = Cardinality(InFlightFactories)
    /\ \A k \in DOMAIN par.started :
         /\ par.started[k] <= 1
         /\ (par.pc = "returned" /\ par.promises[k + 1] # "missing") =>
              (par.started[k] = 1 /\ par.fstate[k] = "settled")

\* three async factories with concurrency 2: two are in flight and the
\* loop sleeps until a slot is free
C18_Witness ==
  /\ par.pc = "sleep10"
  /\ par.concurrency = 2 /\ Cardinality(InFlightFactories) = 2
  /\ Len(par.promises) = 3 /\ par.nextIndex = 2

\* a reference of the step at position pos (from 0) names an earlier step
RefNamesEarlierStep(parts, pos) ==
  (Len(parts) >= 2 /\ parts[1] = "$steps") => (NumberOf(parts[2]) >= 0 /\ NumberOf(parts[2]) < pos)

\* every step has a command that is not a batch command, and its
\* references name earlier steps
WellFormedPlan(steps) ==
  \A k \in DOMAIN steps :
    /\ "command" \in DOMAIN steps[k]
    /\ ~StartsWithBatch(Trim(steps[k].command))
    /\ isObject(steps[k].args) =>
         \A a \in DOMAIN steps[k].args.obj : RefNamesEarlierStep(steps[k].args.obj[a].str, k - 1)

\* C19 (as claimed): with stopOnError false, a run of a well-formed plan
\* ends by returning one result per step, in step order, each with the ok
\* of its dispatch, and every step was dispatched.
C19_OneResultPerStep ==
  (batch.pc \in {"returned", "thrown"} /\ "stopOnError" \in DOMAIN batch.opts
     /\ ~batch.opts["stopOnError"] /\ WellFormedPlan(batch.steps)) =>
    /\ batch.pc = "returned"
    /\ Len(batch.results) = Len(batch.steps)
    /\ Len(batch.dispatched) = Len(batch.steps)
    /\ \A k \in DOMAIN batch.results :
         /\ batch.results[k].obj.command = Str(<<batch.steps[k].command>>)
         /\ batch.results[k].obj.ok = Bool(batch.outcomes[k].ok)
         /\ batch.dispatched[k].index = k - 1

\* C20: with stopOnError true or absent, steps are dispatched in order, one
\* at a time; results holds one entry per settled dispatch, with the ok of
\* that dispatch and the step's command; an ok:false entry is the last one,
\* ends the run by a return, and no step after it is dispatched.
C20_StopsAtFirstFailure ==
  (batch.pc # "idle" /\ ("stopOnError" \in DOMAIN batch.opts => batch.opts["stopOnError"])) =>
    /\ \A k \in DOMAIN batch.dispatched : batch.dispatched[k].index = k - 1
    /\ Len(batch.dispatched) = Len(batch.results) + (IF batch.pc = "awaiting" THEN 1 ELSE 0)
    /\ \A k \in DOMAIN batch.results :
         /\ batch.results[k].obj.ok = Bool(batch.outcomes[k].ok)
         /\ batch.results[k].obj.command = Str(<<batch.steps[k].command>>)
         /\ ~batch.outcomes[k].ok =>
              (k = Len(batch.results) /\ batch.pc = "returned" /\ Len(batch.dispatched) = k)

\* a plan of three steps whose second dispatch threw: two results, the
\* third step was not dispatched
C20_Witness ==
  /\ batch.pc = "returned" /\ "stopOnError" \notin DOMAIN batch.opts
  /\ Len(batch.steps) = 3 /\ Len(batch.results) = 2 /\ Len(batch.dispatched) = 2
  /\ batch.outcomes[1].ok /\ ~batch.outcomes[2].ok
  /\ batch.results[2].obj.ok = Bool(FALSE)

\* the calls on the client that have returned a workspace
ReturnedCalls == {c \in DOMAIN client.calls : client.calls[c].st = "returned"}

\* C21 (as claimed): of the calls that returned, at most one fetched
\* /workspaces, and all returned the same workspace.
C21_OneFetchSameWorkspace ==
  /\ Cardinality({c \in ReturnedCalls : client.calls[c].fetched}) <= 1
  /\ \A a, b \in ReturnedCalls : client.calls[a].workspace = client.calls[b].workspace

\* the pages paginate() is to walk: page 1 and every page a next_page
\* offset leads to
LinkedPages(pages) ==
  LET stops == {i \in 1..Len(pages) : ~pages[i].next} IN
  1..(CHOOSE i \in stops : \A j \in stops : i <= j)

RECURSIVE ConcatPages(_, _)
\* the items of pages 1..n, in page order
ConcatPages(pages, n) == IF n = 0 THEN <<>> ELSE ConcatPages(pages, n - 1) \o Chunk(pages, n)

\* the page asked for by request r of the call
PageOfRequest(r) == IF "offset" \in DOMAIN pager.requests[r] THEN pager.requests[r].offset ELSE 1

\* C22: with maxItems, paginate() returns the first maxItems items of the
\* concatenation of the pages (all of them when there are fewer) and asks
\* for no further page once maxItems items are collected; without maxItems
\* it returns every item of every page and stops at the first page without
\* a next_page offset.  Pages are requested one by one in page order.
C22_PaginateCollects ==
  pager.pc # "idle" =>
    LET last == CHOOSE i \in LinkedPages(pager.pages) : \A j \in LinkedPages(pager.pages) : j <= i
        every == ConcatPages(pager.pages, last) IN
    /\ \A r \in DOMAIN pager.requests : PageOfRequest(r) = r /\ r \in LinkedPages(pager.pages)
    /\ "num" \in DOMAIN pager.maxItems =>
         /\ \A r \in DOMAIN pager.requests :
              r > 1 => Len(ConcatPages(pager.pages, r - 1)) < pager.maxItems.num
         /\ pager.pc = "returned" =>
              /\ Len(pager.all) <= pager.maxItems.num
              /\ pager.all = SubSeq(every, 1, IF Len(every) < pager.maxItems.num
                                              THEN Len(every) ELSE pager.maxItems.num)
    /\ (pager.maxItems = Undefined /\ pager.pc = "returned") =>
         /\ pager.all = every
         /\ Len(pager.requests) = last

\* maxItems 2 is reached on the first of two linked pages: paginate()
\* returns its two items after one request
C22_Witness ==
  /\ pager.pc = "returned"
  /\ pager.maxItems = [num |-> 2]
  /\ Len(pager.pages) >= 2 /\ pager.pages[1].next /\ pager.pages[1].n = 2 /\ pager.pages[2].n >= 1
  /\ pager.all = << << 1, 1 >>, << 1, 2 >> >>
  /\ Len(pager.requests) = 1

\* C23 (as claimed): once the timeout has settled an invocation, no message
\* of its worker is processed: the progress trail and the calls of
\* onProgress stay as they are, the session store stays as it is and no
\* new call is taken up.
C23_NothingProcessedAfterTimeout ==
  [][(settled /\ settledBy = "timeout" /\ invocations' = invocations) =>
       /\ progressMessages' = progressMessages
       /\ onProgressCalls' = onProgressCalls
       /\ session' = session
       /\ DOMAIN calls' = DOMAIN calls]_vars

DispatchEntered ==
  {id \in DOMAIN calls' :
     calls'[id].st = "dispatching" /\ ~(id \in DOMAIN calls /\ calls[id].st = "dispatching")}

\* the step records one admission of the limiter at the current instant
AdmissionRecorded ==
  \/ timestamps' = Append(timestamps, now)
  \/ timestamps' = Append(Evict(timestamps, now), now)

\* C25: a call's dispatch function is invoked in the step in which
\* acquire() returns for that call, not before the end of its sleep when it
\* had to sleep; every such step records one admission of its own, and no
\* other step records one, so k dispatched calls make k admissions.
C25_DispatchAfterOwnAdmission ==
  [][invocations' = invocations =>
       /\ DispatchEntered # {} =>
            /\ Cardinality(DispatchEntered) = 1
            /\ AdmissionRecorded
            /\ \A id \in DispatchEntered :
                 /\ calls'[id].key \in RegisteredKeys
                 /\ id \in DOMAIN calls => (calls[id].st = "sleeping" /\ now >= calls[id].wakeAt)
       /\ DispatchEntered = {} => timestamps' \in {timestamps, Evict(timestamps, now)}
    ]_vars

\* two concurrent calls: the first was admitted at once, the second after
\* its sleep, and the limiter holds the two admissions
C25_Witness ==
  /\ DOMAIN calls = {0, 1}
  /\ \A id \in DOMAIN calls : calls[id].key \in RegisteredKeys /\ calls[id].st \in {"dispatching", "responded"}
  /\ Len(timestamps) = 2 /\ timestamps[1] < timestamps[2]

\* C26: whenever the session observer has been invoked for (key, value),
\* the store it could read at that moment already mapped key to value.
C26_StoreUpdatedBeforeObserver ==
  "key" \in DOMAIN sessionObserved =>
    /\ sessionObserved.key \in DOMAIN sessionObserved.store
    /\ sessionObserved.store[sessionObserved.key] = sessionObserved.value

\* in a second invocation the script wrote context.k again: the observer
\* was invoked for the value with the store already holding it
C26_Witness ==
  /\ invocations = 2
  /\ Len(written) >= 1 /\ written[Len(written)].value = "v1"
  /\ "key" \in DOMAIN sessionObserved
  /\ sessionObserved.key = "k" /\ sessionObserved.value = "v1"
  /\ wcontext = [k |-> "v1"] /\ session = [k |-> "v1"]

\* C27: a step changes the session store only by handling a SessionUpdate
\* message, and then it maps the message's key to the message's value and
\* leaves every other key as it was; every other step leaves the store
\* unchanged.
C27_StoreChangedBySessionUpdateOnly ==
  [][session' # session =>
       /\ SessionUpdateHandled
       /\ Head(w2m).key \in DOMAIN session'
       /\ session'[Head(w2m).key] = Head(w2m).value
       /\ DOMAIN session' = DOMAIN session \cup {Head(w2m).key}
       /\ \A k \in DOMAIN session : k # Head(w2m).key => session'[k] = session[k]
    ]_vars

\* the store holds two keys; the second invocation has rewritten k and
\* left j as the first one wrote it
C27_Witness ==
  /\ invocations = 2
  /\ DOMAIN session = {"k", "j"}
  /\ session["j"] = "v1" /\ session["k"] = "v2"
  /\ wcontext = [k |-> "v2", j |-> "v1"]
  /\ Len(written) = 1 /\ written[1].key = "k"

\* the responses among the lines written are in the order of their requests
ResponsesInOrder(out) ==
  \A i, j \in DOMAIN out :
    (i < j /\ out[i].kind \in {"response", "error"} /\ out[j].kind \in {"response", "error"}) =>
      out[i].n < out[j].n

\* the last line written answers request n
LastAnswers(out, n) ==
  out # <<>> /\ out[Len(out)].kind \in {"response", "error"} /\ out[Len(out)].n = n

\* C28: the server takes the next input line only while no invocation is
\* outstanding and the line before has been answered: a tools/call makes
\* the loop wait until executeInSandbox has settled and the response is
\* written, every other request is answered in the step that takes it, and
\* the responses are written in request order.
C28_OneRequestAtATime ==
  [][server'.pc # "off" =>
       /\ promise' = "pending" => server'.pc = "awaiting"
       /\ server'.pc = "awaiting" => server'.call.n = server'.taken
       /\ ResponsesInOrder(server'.out)
       /\ (server.pc # "off" /\ server'.taken # server.taken) =>
            /\ server.pc = "reading" /\ promise # "pending"
            /\ server'.taken = server.taken + 1
            /\ Head(server.stdin).method # "initialized" =>
                 \/ server'.pc = "awaiting" /\ server'.out = server.out
                 \/ /\ server'.pc = "reading"
                    /\ Len(server'.out) = Len(server.out) + 1
                    /\ LastAnswers(server'.out, server'.taken)
       /\ (server.pc = "awaiting" /\ server'.pc = "reading") =>
            /\ promise' # "pending"
            /\ server'.taken = server.taken
            /\ Len(server'.out) = Len(server.out) + 1
            /\ LastAnswers(server'.out, server.call.n)
    ]_vars

\* a second tools/call has arrived while the first one runs: it waits on
\* stdin
C28_Witness ==
  /\ server.pc = "awaiting" /\ promise = "pending"
  /\ server.call.n = 1
  /\ Len(server.stdin) = 1
  /\ Head(server.stdin).method = "tools/call" /\ Head(server.stdin).name = "execute"

\* the progress notifications of request n among the first i lines written
ProgressLinesOf(out, n, i) ==
  {k \in 1..i : out[k].kind = "notification" /\ out[k].method = "notifications/progress" /\ out[k].n = n}

\* C29 (as claimed): a progress notification of a call is never written
\* after the call's response, and the notifications of a call are numbered
\* 1, 2, 3, ... in the order they are written.
C29_ProgressBeforeResponse ==
  server.pc # "off" =>
    \A i \in DOMAIN server.out :
      LET line == server.out[i] IN
      (line.kind = "notification" /\ line.method = "notifications/progress") =>
        /\ line.progress = Cardinality(ProgressLinesOf(server.out, line.n, i))
        /\ ~\E r \in 1..(i - 1) : server.out[r].kind \in {"response", "error"} /\ server.out[r].n = line.n

RECURSIVE ReachableFrom(_, _)
\* the tasks reached from the tasks of S along the edges of graph
ReachableFrom(graph, S) ==
  LET next == S \cup UNION {graph[x] : x \in S} IN
  IF next = S THEN S ELSE ReachableFrom(graph, next)

\* C30 (as claimed): addDependencies is posted only when the task differs
\* from blockedBy and is not reachable from it along the existing edges;
\* a call that fails with DEPENDENCY_CYCLE_RISK has posted nothing.
C30_MutationOnlyWithoutCycle ==
  deps.pc # "idle" =>
    /\ deps.mutations <= 1
    /\ deps.mutations = 1 =>
         /\ deps.taskGid # deps.blockedByGid
         /\ deps.taskGid \notin ReachableFrom(deps.graph, {deps.blockedByGid})
    /\ (deps.pc = "thrown" /\ deps.code = "DEPENDENCY_CYCLE_RISK") => deps.mutations = 0

====
